---- MODULE Spec2Model ----
(***************************************************************************)
(* A model of the Telegram task bot: main.py (handlers, draft buffer,      *)
(* keyboard tracking, commit pipeline, parser of the AI answer) and        *)
(* sheets_api.py (the rows appended to the sheet).                         *)
(*                                                                         *)
(* Strings are sequences of one-character strings, so that strip(),        *)
(* lower(), startswith(), splitlines() and join() are computed, not        *)
(* assumed.  The module text is ASCII: the Ukrainian literals of the       *)
(* source are written in Latin transliteration, letter for letter in       *)
(* their role (label, keyword, default):                                   *)
(*   labels   "Nazva:" "Teg:" "Dedlajn:" "Priorytet:" "Opys:"              *)
(*   keywords "vysok" "ser" "zvych"                                        *)
(*   values   "vysokyj" "serednij" "zvychajnyj"                            *)
(*   defaults "#inshe" "ne vkazano" "(bez opysu)"                          *)
(***************************************************************************)
EXTENDS Integers, Sequences, FiniteSets, Bags, TLC

None == "None"

(***************************************************************************)
(* Python string primitives                                                *)
(***************************************************************************)
IsSpace(c) == c \in {" ", "\n", "\t"}

UpperCase == <<"A", "B", "C", "D", "E", "F", "G", "H", "I", "J", "K", "L", "M",
               "N", "O", "P", "Q", "R", "S", "T", "U", "V", "W", "X", "Y", "Z">>

LowerCase == <<"a", "b", "c", "d", "e", "f", "g", "h", "i", "j", "k", "l", "m",
               "n", "o", "p", "q", "r", "s", "t", "u", "v", "w", "x", "y", "z">>

\* str.lower() on one character
LowerChar(c) ==
    IF \E k \in DOMAIN UpperCase : UpperCase[k] = c
    THEN LowerCase[CHOOSE k \in DOMAIN UpperCase : UpperCase[k] = c]
    ELSE c

\* str.lower()
Lower(s) == [k \in DOMAIN s |-> LowerChar(s[k])]

\* a faulty variant: str.lstrip(), which leaves the trailing whitespace
LStrip(s) ==
    LET keep == {k \in DOMAIN s : ~IsSpace(s[k])}
    IN IF keep = {} THEN <<>>
       ELSE SubSeq(s, CHOOSE k \in keep : \A m \in keep : k <= m, Len(s))

\* str.strip(): drop leading and trailing whitespace
Strip(s) ==
    LET keep == {k \in DOMAIN s : ~IsSpace(s[k])}
    IN IF keep = {} THEN <<>>
       ELSE LET lo == CHOOSE k \in keep : \A m \in keep : k <= m
                hi == CHOOSE k \in keep : \A m \in keep : m <= k
            IN SubSeq(s, lo, hi)

\* str.startswith(prefix)
StartsWith(s, prefix) ==
    /\ Len(prefix) <= Len(s)
    /\ SubSeq(s, 1, Len(prefix)) = prefix

\* the slice s[n:]
DropFirst(s, n) == IF n >= Len(s) THEN <<>> ELSE SubSeq(s, n + 1, Len(s))

\* the test "sub in s"
Contains(s, sub) ==
    \E k \in 0..(Len(s) - Len(sub)) : SubSeq(s, k + 1, k + Len(sub)) = sub

\* "\n".join(parts)
RECURSIVE JoinLines(_)
JoinLines(parts) ==
    IF parts = <<>> THEN <<>>
    ELSE IF Len(parts) = 1 THEN parts[1]
    ELSE parts[1] \o <<"\n">> \o JoinLines(Tail(parts))

\* str.splitlines(), the line break being "\n"
RECURSIVE SplitLines(_)
SplitLines(s) ==
    IF s = <<>> THEN <<>>
    ELSE IF \E k \in DOMAIN s : s[k] = "\n"
    THEN LET cut == CHOOSE k \in DOMAIN s :
                        s[k] = "\n" /\ \A m \in 1..(k - 1) : s[m] # "\n"
         IN <<SubSeq(s, 1, cut - 1)>> \o SplitLines(DropFirst(s, cut))
    ELSE <<s>>

\* [f(x) for x in seq if x], the comprehension's filter on a sequence
RECURSIVE NonEmptyStripped(_)
NonEmptyStripped(lines) ==
    IF lines = <<>> THEN <<>>
    ELSE IF Strip(Head(lines)) = <<>> THEN NonEmptyStripped(Tail(lines))
    ELSE <<Strip(Head(lines))>> \o NonEmptyStripped(Tail(lines))

(***************************************************************************)
(* _parse_ai_structured_text (main.py 104-167)                             *)
(***************************************************************************)
LabelName == <<"N", "a", "z", "v", "a", ":">>
LabelTag == <<"T", "e", "g", ":">>
LabelDeadline == <<"D", "e", "d", "l", "a", "j", "n", ":">>
LabelPriority == <<"P", "r", "i", "o", "r", "y", "t", "e", "t", ":">>
LabelDescription == <<"O", "p", "y", "s", ":">>

KeyHigh == <<"v", "y", "s", "o", "k">>
KeyMedium == <<"s", "e", "r">>
KeyNormal == <<"z", "v", "y", "c", "h">>

PriorityHigh == <<"v", "y", "s", "o", "k", "y", "j">>
PriorityMedium == <<"s", "e", "r", "e", "d", "n", "i", "j">>
PriorityNormal == <<"z", "v", "y", "c", "h", "a", "j", "n", "y", "j">>

DefaultTag == <<"#", "i", "n", "s", "h", "e">>
DefaultDeadline == <<"n", "e", " ", "v", "k", "a", "z", "a", "n", "o">>
DefaultDescription == <<"(", "b", "e", "z", " ", "o", "p", "y", "s", "u", ")">>

\* the nested function take(prefix) over the stripped lines
take(lines, prefix) ==
    LET hits == {k \in DOMAIN lines : StartsWith(Lower(lines[k]), Lower(prefix))}
    IN IF hits = {} THEN <<>>
       ELSE LET first == CHOOSE k \in hits : \A m \in hits : k <= m
            IN Strip(DropFirst(lines[first], Len(prefix)))

\* the description: the "Opys:" line's remainder joined with every later line
ParseDescription(lines) ==
    LET hits == {k \in DOMAIN lines : StartsWith(Lower(lines[k]), Lower(LabelDescription))}
    IN IF hits # {}
       THEN LET desc_start == CHOOSE k \in hits : \A m \in hits : k <= m
                first == Strip(DropFirst(lines[desc_start], Len(LabelDescription)))
                rest == SubSeq(lines, desc_start + 1, Len(lines))
            IN Strip(JoinLines(<<first>> \o rest))
       ELSE take(lines, LabelDescription)

\* a faulty variant: the "#" is put before every tag
NormalizeTagAlwaysPrefixed(raw) ==
    LET tag == IF raw # <<>> THEN raw ELSE DefaultTag
    IN <<"#">> \o tag

\* the tag: default, then the "#" prefix
NormalizeTag(raw) ==
    LET tag == IF raw # <<>> THEN raw ELSE DefaultTag
    IN IF tag # <<>> /\ ~StartsWith(tag, <<"#">>) THEN <<"#">> \o tag ELSE tag

\* a faulty variant: the keywords matched on the text as written
NormalizePriorityCaseSensitive(raw) ==
    LET pr == raw
    IN IF Contains(pr, KeyHigh) THEN PriorityHigh
       ELSE IF Contains(pr, KeyMedium) THEN PriorityMedium
       ELSE PriorityNormal

\* the priority: keyword matching on the lowered text
NormalizePriority(raw) ==
    LET pr == Lower(raw)
    IN IF Contains(pr, KeyHigh) THEN PriorityHigh
       ELSE IF Contains(pr, KeyMedium) THEN PriorityMedium
       ELSE IF Contains(pr, KeyNormal) \/ pr = <<>> THEN PriorityNormal
       ELSE PriorityNormal

\* the parser's "return None" (a record, to compare with the dict it returns otherwise)
NoFields == [none |-> TRUE]

\* a faulty variant: an empty name is not rejected
_parse_ai_structured_text_unvalidated(s) ==
    IF s = None \/ s = <<>> THEN NoFields
    ELSE LET lines == NonEmptyStripped(SplitLines(s))
             description == ParseDescription(lines)
         IN [name |-> take(lines, LabelName),
             tag |-> NormalizeTag(take(lines, LabelTag)),
             deadline |-> IF take(lines, LabelDeadline) # <<>>
                          THEN take(lines, LabelDeadline)
                          ELSE DefaultDeadline,
             priority |-> NormalizePriority(take(lines, LabelPriority)),
             description |-> IF description # <<>> THEN description
                             ELSE DefaultDescription]

_parse_ai_structured_text(s) ==
    IF s = None \/ s = <<>> THEN NoFields
    ELSE LET lines == NonEmptyStripped(SplitLines(s))
             name == take(lines, LabelName)
             description == ParseDescription(lines)
         IN IF name = <<>> THEN NoFields
            ELSE [name |-> name,
                  tag |-> NormalizeTag(take(lines, LabelTag)),
                  deadline |-> IF take(lines, LabelDeadline) # <<>>
                               THEN take(lines, LabelDeadline)
                               ELSE DefaultDeadline,
                  priority |-> NormalizePriority(take(lines, LabelPriority)),
                  description |-> IF description # <<>> THEN description
                                  ELSE DefaultDescription]

(***************************************************************************)
(* Bounds of the model                                                     *)
(***************************************************************************)
\* updates Telegram delivers to the webhook in one run
MaxUpdates == 4

\* process_update coroutines that may be pending on ASYNC_LOOP at once: two,
\* the least on which handlers interleave
Coroutines == {1, 2}

MAX_BUFFER_ITEMS == 3

Users == {"u1", "u2"}
Chats == {"c1", "c2"}

\* message.text of an inbound text: a fragment in whitespace, or whitespace
Texts == {<<" ", "a", "\n">>, <<" ">>}

\* what extract_text_from_image or transcribe_audio may return (or None)
Recognitions == {<<"a", " ">>, <<"\n">>}

\* datetime.now().strftime(...): one opaque value
Timestamp == <<"t", "s">>

\* what analyze_task_with_ai may answer: five labelled lines, or lines without a name
AnswerGood == <<"N", "a", "z", "v", "a", ":", " ", "F", "i", "x", "\n",
                "T", "e", "g", ":", " ", "2", "4", "6", "\n",
                "D", "e", "d", "l", "a", "j", "n", ":", "\n",
                "P", "r", "i", "o", "r", "y", "t", "e", "t", ":", " ", "v", "y", "s", "o", "k", "y", "j", "\n",
                "O", "p", "y", "s", ":", " ", "d", "o">>
AnswerNoName == <<"T", "e", "g", ":", " ", "2", "4", "6", "\n", "O", "p", "y", "s", ":", " ", "d", "o">>
Answers == {AnswerGood, AnswerNoName}

\* the parser's result on each answer, computed once
Parsed == [a \in Answers |-> _parse_ai_structured_text(a)]

VARIABLES
    buffer,              \* context.user_data["buffer"], per user
    last_kb_chat_id,     \* context.user_data["last_kb_chat_id"], per user
    last_kb_message_id,  \* context.user_data["last_kb_message_id"], per user (0: absent)
    keyboards,           \* Telegram: the <<chat, message>> pairs that carry buttons
    next_message_id,     \* Telegram: the id of the next message with buttons
    rows,                \* the sheet: rows appended by _append_values
    tasks,               \* ASYNC_LOOP: the bag of pending process_update coroutines
    updates,             \* the updates the webhook has received
    active,              \* the <<user, chat>> pairs updates arrive from
    parser               \* a call of _parse_ai_structured_text on its own: the
                         \* lines of its argument s and what it returned

vars == <<buffer, last_kb_chat_id, last_kb_message_id, keyboards,
          next_message_id, rows, tasks, updates, active, parser>>

\* Of a coroutine: the handler (kind), its update (user, chat), the await it is
\* suspended at (pc), the message of the pending or last reply (msg), the message
\* whose buttons are being removed (target), the local raw_text; and, kept for
\* the properties: the buffer a commit found (at_start), whether an inbound
\* event found the buffer full (found_full), how the two persistence calls of a
\* commit ended (structured, fallback), whether an exception left the handler
\* (fault)
Fresh == [kind |-> None, user |-> None, chat |-> None, pc |-> "entered",
          msg |-> None, target |-> <<>>, raw_text |-> <<>>, at_start |-> <<>>,
          found_full |-> FALSE, structured |-> "no", fallback |-> "no",
          fault |-> FALSE]

\* the handlers that append to the buffer; "media" is the coroutine of
\* photo_message, voice_message and audio_document_message, which differ in the
\* recognition they call and in the wording of their replies only
InputKinds == {"text", "media"}

\* the coroutine of a handler as it is entered, with its update
Entered(kind, u, c) ==
    [Fresh EXCEPT !.kind = kind, !.user = u, !.chat = c,
                  !.found_full = (kind \in InputKinds /\ Len(buffer[u]) = MAX_BUFFER_ITEMS)]

\* a faulty variant: analyze_task_with_ai called on the loop itself, so that
\* nothing else runs until it returns
PendingBehindWorker ==
    IF \E w \in BagToSet(tasks) : w.pc = "analyze_task_with_ai"
    THEN {w \in BagToSet(tasks) : w.pc = "analyze_task_with_ai"}
    ELSE BagToSet(tasks)

Pending == BagToSet(tasks)

\* webhook (main.py 356-368) hands the update to ASYNC_LOOP and returns: the
\* handler starts whatever else is pending
Arrives(u, c) ==
    /\ <<u, c>> \in active
    /\ updates < MaxUpdates
    /\ BagCardinality(tasks) < Cardinality(Coroutines)
    /\ updates' = updates + 1

\* run_coroutine_threadsafe: a coroutine joins the loop, suspended at its first await
Spawn(t) == tasks' = tasks (+) SetToBag({t})

\* a pending coroutine runs from the await that ended to its next one
Resume(t, t2) == tasks' = (tasks (-) SetToBag({t})) (+) SetToBag({t2})

_buf(u) == buffer[u]

\* faulty variants of the capacity check: the comparison off by one, and no
\* check at all
_buffer_has_space_inclusive(u) == Len(_buf(u)) <= MAX_BUFFER_ITEMS

_buffer_has_space_unchecked(u) == TRUE

_buffer_has_space(u) == Len(_buf(u)) < MAX_BUFFER_ITEMS

\* the handler returned (fault: an exception left it, process_update logs it)
Done(t, fault) == [t EXCEPT !.pc = "done", !.fault = fault, !.target = <<>>]

\* await reply_text(msg) is pending
Replying(t, msg) == [t EXCEPT !.pc = "reply_text", !.msg = msg, !.target = <<>>]

\* _remove_old_keyboard up to its await: nothing tracked, it returns at once and
\* the caller goes on to `then`; else edit_message_reply_markup is pending
_remove_old_keyboard(t, then) ==
    LET chat_id == last_kb_chat_id[t.user]
        msg_id == last_kb_message_id[t.user]
    IN IF chat_id = None \/ msg_id = 0
       THEN IF then = "prompt"
            THEN [t EXCEPT !.pc = "send_message", !.msg = then, !.target = <<>>]
            ELSE Replying(t, then)
       ELSE [t EXCEPT !.pc = "edit_message_reply_markup", !.msg = then,
                      !.target = <<chat_id, msg_id>>]

\* _post_text_with_keyboard up to its first await
_post_text_with_keyboard(t) == _remove_old_keyboard(t, "prompt")

\* _parse_ai_structured_text has not returned
NotReturned == [returned |-> FALSE]

\* the state of the bot after main(): nothing stored, nothing pending
Started ==
    /\ buffer = [u \in Users |-> <<>>]
    /\ last_kb_chat_id = [u \in Users |-> None]
    /\ last_kb_message_id = [u \in Users |-> 0]
    /\ keyboards = {}
    /\ next_message_id = 1
    /\ rows = <<>>
    /\ tasks = EmptyBag
    /\ updates = 0
    /\ active = {<<"u1", "c1">>}

Init ==
    /\ Started
    /\ parser = [lines |-> <<>>, fields |-> NotReturned]

(***************************************************************************)
(* start (main.py 172-174)                                                 *)
(***************************************************************************)
start(u, c) ==
    /\ Arrives(u, c)
    /\ Spawn(Replying(Entered("start", u, c), "greeting"))
    /\ UNCHANGED <<buffer, last_kb_chat_id, last_kb_message_id, keyboards,
                   next_message_id, rows, active, parser>>

start_replied(t, ok) ==
    /\ t.kind = "start"
    /\ t.pc = "reply_text"
    /\ Resume(t, IF ok THEN _post_text_with_keyboard(t) ELSE Done(t, TRUE))
    /\ UNCHANGED <<buffer, last_kb_chat_id, last_kb_message_id, keyboards,
                   next_message_id, rows, updates, active, parser>>

(***************************************************************************)
(* text_message (main.py 182-192)                                          *)
(***************************************************************************)
text_message(u, c, message_text) ==
    /\ Arrives(u, c)
    /\ LET text == Strip(message_text)
           t == Entered("text", u, c)
       IN IF text = <<>>
          THEN /\ Spawn(Replying(t, "empty"))
               /\ UNCHANGED buffer
          ELSE IF ~_buffer_has_space(u)
          THEN /\ Spawn(Replying(t, "full"))
               /\ UNCHANGED buffer
          ELSE /\ buffer' = [buffer EXCEPT ![u] = Append(@, text)]
               /\ Spawn(Replying(t, "added"))
    /\ UNCHANGED <<last_kb_chat_id, last_kb_message_id, keyboards,
                   next_message_id, rows, active, parser>>

\* the await of reply_text ends, with the message delivered or an exception
text_message_replied(t, ok) ==
    /\ t.kind = "text"
    /\ t.pc = "reply_text"
    /\ Resume(t, IF ok /\ t.msg = "added" THEN _post_text_with_keyboard(t)
                 ELSE Done(t, ~ok))
    /\ UNCHANGED <<buffer, last_kb_chat_id, last_kb_message_id, keyboards,
                   next_message_id, rows, updates, active, parser>>

(***************************************************************************)
(* photo_message, voice_message, audio_document_message (main.py 197-259): *)
(* the same steps around extract_text_from_image or transcribe_audio       *)
(***************************************************************************)
media_message(u, c) ==
    /\ Arrives(u, c)
    /\ Spawn([Entered("media", u, c) EXCEPT !.pc = "get_file"])
    /\ UNCHANGED <<buffer, last_kb_chat_id, last_kb_message_id, keyboards,
                   next_message_id, rows, active, parser>>

photo_message(u, c) == media_message(u, c)

voice_message(u, c) == media_message(u, c)

audio_document_message(u, c) == media_message(u, c)

\* get_file ends; an exception goes to the handler's except branch
get_file_returns(t, ok) ==
    /\ t.pc = "get_file"
    /\ Resume(t, IF ok THEN [t EXCEPT !.pc = "download_to_drive"]
                 ELSE Replying(t, "error"))
    /\ UNCHANGED <<buffer, last_kb_chat_id, last_kb_message_id, keyboards,
                   next_message_id, rows, updates, active, parser>>

\* a faulty variant: what the recognition returned is appended without the
\* emptiness check
download_to_drive_returns_unchecked(t, ok, result) ==
    LET recognized == Strip(IF result = None THEN <<>> ELSE result)
    IN /\ t.pc = "download_to_drive"
       /\ IF ~ok
          THEN /\ Resume(t, Replying(t, "error"))
               /\ UNCHANGED buffer
          ELSE IF ~_buffer_has_space(t.user)
          THEN /\ Resume(t, Replying(t, "full"))
               /\ UNCHANGED buffer
          ELSE /\ buffer' = [buffer EXCEPT ![t.user] = Append(@, recognized)]
               /\ Resume(t, Replying(t, "recognized"))
       /\ UNCHANGED <<last_kb_chat_id, last_kb_message_id, keyboards,
                      next_message_id, rows, updates, active, parser>>

\* download_to_drive ends; the recognition runs at once (a blocking call), then
\* the checks and the append, up to the next reply_text
download_to_drive_returns(t, ok, result) ==
    LET recognized == Strip(IF result = None THEN <<>> ELSE result)
    IN /\ t.pc = "download_to_drive"
       /\ IF ~ok
          THEN /\ Resume(t, Replying(t, "error"))
               /\ UNCHANGED buffer
          ELSE IF recognized = <<>>
          THEN /\ Resume(t, Replying(t, "not_recognized"))
               /\ UNCHANGED buffer
          ELSE IF ~_buffer_has_space(t.user)
          THEN /\ Resume(t, Replying(t, "full"))
               /\ UNCHANGED buffer
          ELSE /\ buffer' = [buffer EXCEPT ![t.user] = Append(@, recognized)]
               /\ Resume(t, Replying(t, "recognized"))
       /\ UNCHANGED <<last_kb_chat_id, last_kb_message_id, keyboards,
                      next_message_id, rows, updates, active, parser>>

\* reply_text ends inside the try: an exception goes to the except branch, whose
\* own reply_text is outside any try
media_message_replied(t, ok) ==
    /\ t.kind = "media"
    /\ t.pc = "reply_text"
    /\ Resume(t, IF t.msg = "error" THEN Done(t, ~ok)
                 ELSE IF ~ok THEN Replying(t, "error")
                 ELSE IF t.msg = "recognized" THEN _post_text_with_keyboard(t)
                 ELSE Done(t, FALSE))
    /\ UNCHANGED <<buffer, last_kb_chat_id, last_kb_message_id, keyboards,
                   next_message_id, rows, updates, active, parser>>

(***************************************************************************)
(* _remove_old_keyboard and _post_text_with_keyboard (main.py 70-99)       *)
(***************************************************************************)
\* a faulty variant: BadRequest and Exception are not swallowed, they end the handler
edit_message_reply_markup_fatal(t, outcome) ==
    /\ t.pc = "edit_message_reply_markup"
    /\ outcome = "ok" => t.target \in keyboards
    /\ keyboards' = IF outcome = "ok" THEN keyboards \ {t.target} ELSE keyboards
    /\ Resume(t, IF outcome # "ok" THEN Done(t, TRUE)
                 ELSE IF t.msg = "prompt"
                 THEN [t EXCEPT !.pc = "send_message", !.target = <<>>]
                 ELSE Replying(t, t.msg))
    /\ UNCHANGED <<buffer, last_kb_chat_id, last_kb_message_id,
                   next_message_id, rows, updates, active, parser>>

\* edit_message_reply_markup ends: the buttons are gone, or BadRequest or
\* another exception is swallowed; the caller goes on either way
edit_message_reply_markup_returns(t, outcome) ==
    /\ t.pc = "edit_message_reply_markup"
    /\ outcome = "ok" => t.target \in keyboards
    /\ keyboards' = IF outcome = "ok" THEN keyboards \ {t.target} ELSE keyboards
    /\ Resume(t, IF t.msg = "prompt"
                 THEN [t EXCEPT !.pc = "send_message", !.target = <<>>]
                 ELSE Replying(t, t.msg))
    /\ UNCHANGED <<buffer, last_kb_chat_id, last_kb_message_id,
                   next_message_id, rows, updates, active, parser>>

\* send_message returned `sent`: Telegram shows the prompt, the handler tracks it
send_message_returns(t) ==
    /\ t.pc = "send_message"
    /\ keyboards' = keyboards \cup {<<t.chat, next_message_id>>}
    /\ next_message_id' = next_message_id + 1
    /\ last_kb_chat_id' = [last_kb_chat_id EXCEPT ![t.user] = t.chat]
    /\ last_kb_message_id' = [last_kb_message_id EXCEPT ![t.user] = next_message_id]
    /\ Resume(t, Done(t, FALSE))
    /\ UNCHANGED <<buffer, rows, updates, active, parser>>

\* send_message raised: out of start and text_message, to the except branch of
\* the media handlers
send_message_raises(t) ==
    /\ t.pc = "send_message"
    /\ Resume(t, IF t.kind = "media" THEN Replying(t, "error") ELSE Done(t, TRUE))
    /\ UNCHANGED <<buffer, last_kb_chat_id, last_kb_message_id, keyboards,
                   next_message_id, rows, updates, active, parser>>

(***************************************************************************)
(* sheets_api.py: the rows                                                 *)
(***************************************************************************)
\* append_task (sheets_api.py 46-53): the row
append_task(raw_description) ==
    <<Timestamp, <<>>, <<>>, <<>>, <<>>, raw_description>>

\* append_task_structured (sheets_api.py 58-70): the row
append_task_structured(name, tag, deadline, priority, description) ==
    <<Timestamp, name, tag, deadline, priority, description>>

(***************************************************************************)
(* buttons (main.py 288-342)                                               *)
(***************************************************************************)
\* step 3 of new_task, the fallback: append_task(raw_text), then the old
\* keyboard and the notice; or the error message.  The coroutine and the sheet.
Fallback(t, sheet, ok) ==
    IF ok
    THEN [task |-> _remove_old_keyboard([t EXCEPT !.fallback = "ok"], "fallback"),
          sheet |-> Append(sheet, append_task(t.raw_text))]
    ELSE [task |-> Replying([t EXCEPT !.fallback = "failed"], "error"),
          sheet |-> sheet]

\* step 2 of new_task once structured_text is parsed: with fields,
\* append_task_structured, then the old keyboard and the acknowledgment, and on
\* a failure the fallback; without fields, the fallback
WriteFields(t, sheet, fields, s_ok, f_ok) ==
    IF fields = NoFields THEN Fallback(t, sheet, f_ok)
    ELSE IF s_ok
    THEN [task |-> _remove_old_keyboard([t EXCEPT !.structured = "ok"], "structured"),
          sheet |-> Append(sheet, append_task_structured(
                        fields.name, fields.tag, fields.deadline,
                        fields.priority, fields.description))]
    ELSE Fallback([t EXCEPT !.structured = "failed"], sheet, f_ok)

\* a faulty variant of step 2: a failed append_task_structured is reported as
\* the error, without the fallback
StructuredWithoutFallback(t, sheet, structured_text, s_ok, f_ok) ==
    LET fields == IF structured_text # None /\ structured_text # <<>>
                  THEN Parsed[structured_text]
                  ELSE NoFields
    IN IF fields = NoFields THEN Fallback(t, sheet, f_ok)
       ELSE IF s_ok
       THEN [task |-> _remove_old_keyboard([t EXCEPT !.structured = "ok"], "structured"),
             sheet |-> Append(sheet, append_task_structured(
                           fields.name, fields.tag, fields.deadline,
                           fields.priority, fields.description))]
       ELSE [task |-> Replying([t EXCEPT !.structured = "failed"], "error"),
             sheet |-> sheet]

\* step 2 of new_task: parse, append_task_structured, then the old keyboard
\* and the acknowledgment; a failure leads to the fallback
Structured(t, sheet, structured_text, s_ok, f_ok) ==
    LET fields == IF structured_text # None /\ structured_text # <<>>
                  THEN Parsed[structured_text]
                  ELSE NoFields
    IN WriteFields(t, sheet, fields, s_ok, f_ok)

\* a faulty variant of buttons: new_task without the test for an empty buffer
buttons_unguarded(u, c, data) ==
    /\ Arrives(u, c)
    /\ LET t == Entered(data, u, c)
       IN IF data = "clear_buf"
          THEN /\ buffer' = [buffer EXCEPT ![u] = <<>>]
               /\ Spawn(_remove_old_keyboard(t, "cleared"))
          ELSE /\ Spawn([t EXCEPT !.pc = "analyze_task_with_ai",
                                  !.at_start = _buf(u),
                                  !.raw_text = JoinLines(_buf(u))])
               /\ UNCHANGED buffer
    /\ UNCHANGED <<last_kb_chat_id, last_kb_message_id, keyboards,
                   next_message_id, rows, active, parser>>

\* a variant of buttons whose clear_buf forgets the tracked prompt and sends
\* nothing to it
buttons_forgetting(u, c, data) ==
    /\ Arrives(u, c)
    /\ LET t == Entered(data, u, c)
       IN IF data = "clear_buf"
          THEN /\ buffer' = [buffer EXCEPT ![u] = <<>>]
               /\ last_kb_chat_id' = [last_kb_chat_id EXCEPT ![u] = None]
               /\ last_kb_message_id' = [last_kb_message_id EXCEPT ![u] = 0]
               /\ Spawn(Replying(t, "cleared"))
          ELSE /\ IF _buf(u) = <<>>
                  THEN Spawn(Replying(t, "warn_empty"))
                  ELSE Spawn([t EXCEPT !.pc = "analyze_task_with_ai",
                                       !.at_start = _buf(u),
                                       !.raw_text = JoinLines(_buf(u))])
               /\ UNCHANGED <<buffer, last_kb_chat_id, last_kb_message_id>>
    /\ UNCHANGED <<keyboards, next_message_id, rows, active, parser>>

buttons(u, c, data) ==
    /\ Arrives(u, c)
    /\ LET t == Entered(data, u, c)
       IN IF data = "clear_buf"
          THEN /\ buffer' = [buffer EXCEPT ![u] = <<>>]
               /\ Spawn(_remove_old_keyboard(t, "cleared"))
          ELSE IF _buf(u) = <<>>
          THEN /\ Spawn(Replying(t, "warn_empty"))
               /\ UNCHANGED buffer
          ELSE /\ Spawn([t EXCEPT !.pc = "analyze_task_with_ai",
                                  !.at_start = _buf(u),
                                  !.raw_text = JoinLines(_buf(u))])
               /\ UNCHANGED buffer
    /\ UNCHANGED <<last_kb_chat_id, last_kb_message_id, keyboards,
                   next_message_id, rows, active, parser>>

\* asyncio.to_thread(analyze_task_with_ai, ...) ends with a text, None or an
\* exception; steps 2 and 3 run up to the next await
analyze_task_with_ai_returns(t, outcome, answer, s_ok, f_ok) ==
    LET structured_text == IF outcome = "text" THEN answer ELSE None
        after == Structured(t, rows, structured_text, s_ok, f_ok)
    IN /\ t.pc = "analyze_task_with_ai"
       /\ Resume(t, after.task)
       /\ rows' = after.sheet
       /\ UNCHANGED <<buffer, last_kb_chat_id, last_kb_message_id, keyboards,
                      next_message_id, updates, active, parser>>

\* a faulty variant: buf.clear() after every delivered reply, the error included
ClearsBufferAfterAnyReply(msg, ok) == ok

\* whether buf.clear() follows the reply that just ended
ClearsBuffer(msg, ok) == ok /\ msg \in {"structured", "fallback"}

\* reply_text ends in buttons: after an acknowledgment buf.clear(); an exception
\* inside a try goes to its except branch
buttons_replied(t, ok, f_ok) ==
    LET after == IF ~ok /\ t.msg = "structured" THEN Fallback(t, rows, f_ok)
                 ELSE IF ~ok /\ t.msg = "fallback"
                 THEN [task |-> Replying(t, "error"), sheet |-> rows]
                 ELSE [task |-> Done(t, ~ok), sheet |-> rows]
    IN /\ t.kind \in {"new_task", "clear_buf"}
       /\ t.pc = "reply_text"
       /\ Resume(t, after.task)
       /\ rows' = after.sheet
       /\ buffer' = IF ClearsBuffer(t.msg, ok)
                    THEN [buffer EXCEPT ![t.user] = <<>>]
                    ELSE buffer
       /\ UNCHANGED <<last_kb_chat_id, last_kb_message_id, keyboards,
                      next_message_id, updates, active, parser>>

\* process_update ends: the coroutine leaves the loop
Returns(t) ==
    /\ t.pc = "done"
    /\ tasks' = tasks (-) SetToBag({t})
    /\ UNCHANGED <<buffer, last_kb_chat_id, last_kb_message_id, keyboards,
                   next_message_id, rows, updates, active, parser>>

Next ==
    \/ \E u \in Users, c \in Chats : start(u, c)
    \/ \E u \in Users, c \in Chats, m \in Texts : text_message(u, c, m)
    \/ \E u \in Users, c \in Chats : photo_message(u, c)
    \/ \E u \in Users, c \in Chats : voice_message(u, c)
    \/ \E u \in Users, c \in Chats : audio_document_message(u, c)
    \/ \E u \in Users, c \in Chats, d \in {"new_task", "clear_buf"} : buttons(u, c, d)
    \/ \E t \in Pending, ok \in BOOLEAN : start_replied(t, ok)
    \/ \E t \in Pending, ok \in BOOLEAN : text_message_replied(t, ok)
    \/ \E t \in Pending, ok \in BOOLEAN : get_file_returns(t, ok)
    \/ \E t \in Pending, ok \in BOOLEAN, r \in Recognitions :
           download_to_drive_returns(t, ok, r)
    \/ \E t \in Pending, ok \in BOOLEAN : download_to_drive_returns(t, ok, None)
    \/ \E t \in Pending, ok \in BOOLEAN : media_message_replied(t, ok)
    \/ \E t \in Pending, o \in {"ok", "BadRequest", "Exception"} :
           edit_message_reply_markup_returns(t, o)
    \/ \E t \in Pending : send_message_returns(t)
    \/ \E t \in Pending : send_message_raises(t)
    \/ \E t \in Pending, o \in {"text", "None", "raise"}, a \in Answers,
           s \in BOOLEAN, f \in BOOLEAN :
           analyze_task_with_ai_returns(t, o, a, s, f)
    \/ \E t \in Pending, ok \in BOOLEAN, f \in BOOLEAN : buttons_replied(t, ok, f)
    \/ \E t \in Pending : Returns(t)

Spec == Init /\ [][Next]_vars

\* loop.run_forever() (main.py 349-351): a step of a coroutine whose await has
\* ended, as opposed to the arrival of an update
Continues ==
    \/ \E t \in Pending, ok \in BOOLEAN : start_replied(t, ok)
    \/ \E t \in Pending, ok \in BOOLEAN : text_message_replied(t, ok)
    \/ \E t \in Pending, ok \in BOOLEAN : get_file_returns(t, ok)
    \/ \E t \in Pending, ok \in BOOLEAN, r \in Recognitions :
           download_to_drive_returns(t, ok, r)
    \/ \E t \in Pending, ok \in BOOLEAN : download_to_drive_returns(t, ok, None)
    \/ \E t \in Pending, ok \in BOOLEAN : media_message_replied(t, ok)
    \/ \E t \in Pending, o \in {"ok", "BadRequest", "Exception"} :
           edit_message_reply_markup_returns(t, o)
    \/ \E t \in Pending : send_message_returns(t)
    \/ \E t \in Pending : send_message_raises(t)
    \/ \E t \in Pending, o \in {"text", "None", "raise"}, a \in Answers,
           s \in BOOLEAN, f \in BOOLEAN :
           analyze_task_with_ai_returns(t, o, a, s, f)
    \/ \E t \in Pending, ok \in BOOLEAN, f \in BOOLEAN : buttons_replied(t, ok, f)
    \/ \E t \in Pending : Returns(t)

\* the handlers when every call that is awaited returns or raises and the loop
\* runs every coroutine that is ready
FairSpec == Spec /\ WF_vars(Continues)

(***************************************************************************)
(* _parse_ai_structured_text on its own: a commit awaits the AI, whose      *)
(* answer is any text of up to MaxLines of the lines below                  *)
(***************************************************************************)
\* lines of the answer
MaxLines == 3

\* the name, its label in upper case
LineNameUpper == <<"N", "A", "Z", "V", "A", ":", " ", "F", "i", "x">>

\* the name label in lower case, no value
LineNameEmpty == <<"n", "a", "z", "v", "a", ":">>

\* a tag without #
LineTagBare == <<"T", "e", "g", ":", " ", "2", "4", "6">>

\* a tag with #
LineTagHash == <<"T", "e", "g", ":", " ", "#", "7">>

\* a deadline
LineDeadline == <<"D", "e", "d", "l", "a", "j", "n", ":", " ", "p", "t">>

\* 'terminovo' for the Ukrainian word for urgently
LinePriorityUrgent == <<"P", "r", "i", "o", "r", "y", "t", "e", "t", ":", " ", "t", "e", "r", "m", "i", "n", "o", "v", "o">>

\* 'cogo tyznja' for the Ukrainian words for this week
LinePriorityThisWeek == <<"P", "r", "i", "o", "r", "y", "t", "e", "t", ":", " ", "c", "o", "g", "o", " ", "t", "y", "z", "n", "j", "a">>

\* the priority label and nothing
LinePriorityEmpty == <<"P", "r", "i", "o", "r", "y", "t", "e", "t", ":", " ">>

\* the priority the prompt asks for, in upper case
LinePriorityHigh == <<"P", "r", "i", "o", "r", "y", "t", "e", "t", ":", " ", "V", "Y", "S", "O", "K", "Y", "J">>

\* the priority the prompt asks for
LinePriorityMedium == <<"P", "r", "i", "o", "r", "y", "t", "e", "t", ":", " ", "S", "e", "r", "e", "d", "n", "i", "j">>

\* a description
LineDescription == <<"O", "p", "y", "s", ":", " ", "d", "o">>

\* the description label and nothing
LineDescriptionEmpty == <<"O", "p", "y", "s", ":">>

\* a line without a label, in whitespace
LineMore == <<" ", "m", "o", "r", "e", " ">>

\* a blank line
LineBlank == <<>>

ParserLines ==
    {LineNameUpper, LineNameEmpty, LineTagBare,
     LineTagHash, LineDeadline, LinePriorityUrgent,
     LinePriorityThisWeek, LinePriorityEmpty, LinePriorityHigh,
     LinePriorityMedium, LineDescription, LineDescriptionEmpty,
     LineMore, LineBlank}

ParserInputs == UNION {[1..n -> ParserLines] : n \in 0..MaxLines}

\* the commit of a one-fragment buffer, suspended at the AI call (main.py 307-308)
AwaitingAnswer ==
    [Fresh EXCEPT !.kind = "new_task", !.user = "u1", !.chat = "c1",
                  !.pc = "analyze_task_with_ai",
                  !.at_start = <<Strip(<<" ", "a", "\n">>)>>,
                  !.raw_text = JoinLines(<<Strip(<<" ", "a", "\n">>)>>)]

\* a text was handled and its prompt shown, then new_task was pressed
ParserInit ==
    /\ buffer = [u \in Users |-> IF u = "u1" THEN AwaitingAnswer.at_start ELSE <<>>]
    /\ last_kb_chat_id = [u \in Users |-> IF u = "u1" THEN "c1" ELSE None]
    /\ last_kb_message_id = [u \in Users |-> IF u = "u1" THEN 1 ELSE 0]
    /\ keyboards = {<<"c1", 1>>}
    /\ next_message_id = 2
    /\ rows = <<>>
    /\ tasks = SetToBag({AwaitingAnswer})
    /\ updates = 2
    /\ active = {<<"u1", "c1">>}
    /\ parser \in {[lines |-> ls, fields |-> NotReturned] : ls \in ParserInputs}

\* the AI call returns the text of the lines; steps 2 and 3 run up to the next
\* await (main.py 313-336), the parser called on the text itself
analyze_task_with_ai_answers(t) ==
    LET structured_text == JoinLines(parser.lines)
        fields == IF structured_text # <<>>
                  THEN _parse_ai_structured_text(structured_text)
                  ELSE NoFields
    IN /\ t.pc = "analyze_task_with_ai"
       /\ parser.fields = NotReturned
       /\ parser' = [parser EXCEPT !.fields = fields]
       /\ \E s_ok \in BOOLEAN, f_ok \in BOOLEAN :
              LET after == WriteFields(t, rows, parser'.fields, s_ok, f_ok)
              IN /\ Resume(t, after.task)
                 /\ rows' = after.sheet
       /\ UNCHANGED <<buffer, last_kb_chat_id, last_kb_message_id, keyboards,
                      next_message_id, updates, active>>

ParserNext == \E t \in Pending : analyze_task_with_ai_answers(t)

ParserSpec == ParserInit /\ [][ParserNext]_vars

(***************************************************************************)
(* The handlers with several conversations: one user writing in two chats  *)
(* and a second user in one of them, up to MaxSessionUpdates updates       *)
(***************************************************************************)
MaxSessionUpdates == 3

\* the (user, chat) pairs updates come from
Sessions == {<<"u1", "c1">>, <<"u1", "c2">>, <<"u2", "c2">>}

SessionsInit ==
    /\ buffer = [u \in Users |-> <<>>]
    /\ last_kb_chat_id = [u \in Users |-> None]
    /\ last_kb_message_id = [u \in Users |-> 0]
    /\ keyboards = {}
    /\ next_message_id = 1
    /\ rows = <<>>
    /\ tasks = EmptyBag
    /\ updates = 0
    /\ active = Sessions
    /\ parser = [lines |-> <<>>, fields |-> NotReturned]

SessionsNext ==
    \/ updates < MaxSessionUpdates /\ \E u \in Users, c \in Chats : start(u, c)
    \/ updates < MaxSessionUpdates
           /\ \E u \in Users, c \in Chats, m \in Texts : text_message(u, c, m)
    \/ updates < MaxSessionUpdates /\ \E u \in Users, c \in Chats : photo_message(u, c)
    \/ updates < MaxSessionUpdates /\ \E u \in Users, c \in Chats : voice_message(u, c)
    \/ updates < MaxSessionUpdates
           /\ \E u \in Users, c \in Chats : audio_document_message(u, c)
    \/ updates < MaxSessionUpdates
           /\ \E u \in Users, c \in Chats, d \in {"new_task", "clear_buf"} : buttons(u, c, d)
    \/ \E t \in Pending, ok \in BOOLEAN : start_replied(t, ok)
    \/ \E t \in Pending, ok \in BOOLEAN : text_message_replied(t, ok)
    \/ \E t \in Pending, ok \in BOOLEAN : get_file_returns(t, ok)
    \/ \E t \in Pending, ok \in BOOLEAN, r \in Recognitions :
           download_to_drive_returns(t, ok, r)
    \/ \E t \in Pending, ok \in BOOLEAN : download_to_drive_returns(t, ok, None)
    \/ \E t \in Pending, ok \in BOOLEAN : media_message_replied(t, ok)
    \/ \E t \in Pending, o \in {"ok", "BadRequest", "Exception"} :
           edit_message_reply_markup_returns(t, o)
    \/ \E t \in Pending : send_message_returns(t)
    \/ \E t \in Pending : send_message_raises(t)
    \/ \E t \in Pending, o \in {"text", "None", "raise"}, a \in Answers,
           s \in BOOLEAN, f \in BOOLEAN :
           analyze_task_with_ai_returns(t, o, a, s, f)
    \/ \E t \in Pending, ok \in BOOLEAN, f \in BOOLEAN : buttons_replied(t, ok, f)
    \/ \E t \in Pending : Returns(t)

SessionsSpec == SessionsInit /\ [][SessionsNext]_vars

(***************************************************************************)
(* The steps the properties speak of                                       *)
(***************************************************************************)
\* this step is coroutine t running from one await to the next, where it is t2
Steps(t, t2) ==
    /\ t \in Pending
    /\ t2 # t
    /\ tasks' = (tasks (-) SetToBag({t})) (+) SetToBag({t2})

\* this step is the arrival of an update, whose handler is suspended as t2
Spawned(t2) == tasks' = tasks (+) SetToBag({t2})

\* the identity of the prompt tracked for user u
Tracked(u) == <<last_kb_chat_id[u], last_kb_message_id[u]>>

Untracked == <<None, 0>>

(***************************************************************************)
(* C1                                                                      *)
(***************************************************************************)
\* C1: whatever the order and interleaving of the handlers, the buffer of a
\* user never holds more than MAX_BUFFER_ITEMS fragments.
C1_BufferBounded == \A u \in Users : Len(buffer[u]) <= MAX_BUFFER_ITEMS

\* a full buffer that turned a fragment away while two handlers were pending
C1_FullWhileInterleaved ==
    /\ BagCardinality(tasks) = 2
    /\ \E t \in Pending : t.msg = "full" /\ Len(buffer[t.user]) = MAX_BUFFER_ITEMS

(***************************************************************************)
(* C2                                                                      *)
(***************************************************************************)
\* C2: a step of a new_task commit changes (empties) the buffer only if a
\* persistence call of that same commit, append_task_structured or
\* append_task, has returned without an exception.
C2_ClearOnlyAfterOwnAppend ==
    [][\A t \in Pending : \A t2 \in BagToSet(tasks') :
          (Steps(t, t2) /\ t.kind = "new_task" /\ buffer' # buffer)
              => (t.structured = "ok" \/ t.fallback = "ok")]_vars

\* a commit that wrote the fallback row, acknowledged it and emptied the buffer
C2_ClearedAfterAppend ==
    \E t \in Pending :
        /\ t.kind = "new_task" /\ t.pc = "done" /\ ~t.fault
        /\ t.msg = "fallback" /\ t.fallback = "ok"
        /\ buffer[t.user] = <<>>
        /\ Len(rows) = 1

(***************************************************************************)
(* C3                                                                      *)
(***************************************************************************)
\* C3: when a new_task commit one of whose persistence calls succeeded
\* finishes, the buffer of its user is empty, whatever the removal of the old
\* buttons and the acknowledgment did.
C3_EmptyAfterPersisted ==
    [][\A t \in Pending : \A t2 \in BagToSet(tasks') :
          (/\ Steps(t, t2) /\ t.kind = "new_task" /\ t2.pc = "done"
           /\ (t2.structured = "ok" \/ t2.fallback = "ok"))
              => buffer'[t.user] = <<>>]_vars

(***************************************************************************)
(* C4                                                                      *)
(***************************************************************************)
\* C4: when a new_task commit finishes after its fallback append failed, and
\* its structured append, if attempted, failed too, the buffer is what the
\* commit found (same fragments, same order) and the write error is the
\* message the commit sent.
C4_IntactAfterBothFailed ==
    [][\A t \in Pending : \A t2 \in BagToSet(tasks') :
          (/\ Steps(t, t2) /\ t.kind = "new_task" /\ t2.pc = "done"
           /\ t2.structured # "ok" /\ t2.fallback = "failed")
              => (buffer'[t.user] = t.at_start /\ t.msg = "error")]_vars

(***************************************************************************)
(* C5                                                                      *)
(***************************************************************************)
\* C5: the step of a new_task commit in which append_task_structured succeeds
\* on a valid parse appends the six-column row of the parsed fields, and no
\* later step of that commit appends any row.
C5_OneStructuredRow ==
    [][\A t \in Pending : \A t2 \in BagToSet(tasks') :
          (Steps(t, t2) /\ t.kind = "new_task" /\ t2.structured = "ok")
              => rows' = IF t.structured = "ok" THEN rows
                         ELSE Append(rows, append_task_structured(
                                  Parsed[AnswerGood].name, Parsed[AnswerGood].tag,
                                  Parsed[AnswerGood].deadline, Parsed[AnswerGood].priority,
                                  Parsed[AnswerGood].description))]_vars

(***************************************************************************)
(* C6                                                                      *)
(***************************************************************************)
\* C6: a new_task commit whose AI call raised, returned nothing or returned
\* text the parser rejects attempts append_task once, with the fragments it
\* found joined by newlines; a success appends exactly the row of the
\* timestamp, four blanks and that text; and when the commit finishes after
\* that success the buffer is empty.
C6_FallbackRowThenClear ==
    [][\A t \in Pending : \A t2 \in BagToSet(tasks') :
          (Steps(t, t2) /\ t.kind = "new_task" /\ t2.structured = "no")
              => /\ t.pc = "analyze_task_with_ai"
                     => /\ t2.fallback # "no"
                        /\ rows' = IF t2.fallback = "ok"
                                   THEN Append(rows, append_task(JoinLines(t.at_start)))
                                   ELSE rows
                 /\ t.pc # "analyze_task_with_ai" => rows' = rows
                 /\ (t2.pc = "done" /\ t2.fallback = "ok") => buffer'[t.user] = <<>>]_vars

(***************************************************************************)
(* C7                                                                      *)
(***************************************************************************)
\* C7: the step of a new_task commit in which append_task_structured fails
\* leaves the buffer as it is and goes on to append_task in the same commit;
\* afterwards the commit empties the buffer only if that append_task succeeded.
C7_FallbackAfterStructuredFailure ==
    [][\A t \in Pending : \A t2 \in BagToSet(tasks') :
          (Steps(t, t2) /\ t.kind = "new_task" /\ t2.structured = "failed")
              => /\ t2.fallback \in {"ok", "failed"}
                 /\ t.structured # "failed"
                     => /\ buffer' = buffer
                        /\ rows' = IF t2.fallback = "ok"
                                   THEN Append(rows, append_task(t.raw_text))
                                   ELSE rows
                 /\ buffer' # buffer => t.fallback = "ok"]_vars

\* a commit whose structured append failed, whose fallback append succeeded,
\* and which then emptied the buffer
C7_ClearedAfterFallback ==
    \E t \in Pending :
        /\ t.kind = "new_task" /\ t.pc = "done" /\ ~t.fault
        /\ t.structured = "failed" /\ t.fallback = "ok"
        /\ buffer[t.user] = <<>>
        /\ rows = <<append_task(t.raw_text)>>

(***************************************************************************)
(* C8                                                                      *)
(***************************************************************************)
\* C8 as stated: the handler of a text, photo, voice or audio-document update
\* that arrived while the buffer held MAX_BUFFER_ITEMS fragments sends the
\* capacity warning and no other message, and none of its steps changes the
\* buffer or the tracked prompt.
C8_RejectedOnArrival ==
    [][/\ \A t2 \in BagToSet(tasks') :
             (Spawned(t2) /\ t2.found_full)
                 => (t2.msg \in {None, "full"} /\ buffer' = buffer)
       /\ \A t \in Pending : \A t2 \in BagToSet(tasks') :
             (Steps(t, t2) /\ t.found_full)
                 => /\ t2.msg \in {None, "full"}
                    /\ buffer' = buffer
                    /\ Tracked(t.user)' = Tracked(t.user)]_vars

\* C8, amended: a handler that reaches its capacity check with a text, typed
\* or recognized, that is not empty once trimmed, while the buffer holds
\* MAX_BUFFER_ITEMS fragments, sends the capacity warning and leaves the buffer
\* as it is; after the warning no step of that handler changes the buffer, the
\* tracked prompt or the buttons shown, and it sends nothing more but the
\* error message of a warning that could not be delivered.
C8_RejectedAtCheck ==
    [][/\ \A t2 \in BagToSet(tasks') :
             (/\ Spawned(t2) /\ t2.kind = "text" /\ t2.msg # "empty"
              /\ Len(buffer[t2.user]) = MAX_BUFFER_ITEMS)
                 => (t2.msg = "full" /\ buffer' = buffer)
       /\ \A t \in Pending : \A t2 \in BagToSet(tasks') :
             (/\ Steps(t, t2) /\ t.pc = "download_to_drive"
              /\ t2.msg \in {"full", "recognized"}
              /\ Len(buffer[t.user]) = MAX_BUFFER_ITEMS)
                 => (t2.msg = "full" /\ buffer' = buffer)
       /\ \A t \in Pending : \A t2 \in BagToSet(tasks') :
             (Steps(t, t2) /\ t.kind \in InputKinds /\ t.msg = "full")
                 => /\ buffer' = buffer
                    /\ Tracked(t.user)' = Tracked(t.user)
                    /\ keyboards' = keyboards
                    /\ t2.pc \in {"done", "reply_text"}
                    /\ t2.pc = "reply_text" => t2.msg = "error"]_vars

\* a recognized fragment turned away by a full buffer, the warning delivered
C8_MediaRejected ==
    \E t \in Pending :
        /\ t.kind = "media" /\ t.msg = "full" /\ t.pc = "done" /\ ~t.fault
        /\ Len(buffer[t.user]) = MAX_BUFFER_ITEMS

(***************************************************************************)
(* C9                                                                      *)
(***************************************************************************)
\* C9 as stated: clear_buf empties the buffer, and once its removal of the
\* tracked prompt's buttons has ended no prompt identity is stored.
C9_ForgetsPrompt ==
    [][/\ \A t2 \in BagToSet(tasks') :
             (Spawned(t2) /\ t2.kind = "clear_buf") => buffer'[t2.user] = <<>>
       /\ \A t \in Pending : \A t2 \in BagToSet(tasks') :
             (/\ Steps(t, t2) /\ t.kind = "clear_buf"
              /\ t.pc = "edit_message_reply_markup")
                 => Tracked(t.user)' = Untracked]_vars

\* C9, amended: clear_buf empties the buffer at once and, when a prompt is
\* tracked, asks Telegram to remove the buttons of that very prompt; no step
\* of clear_buf changes the stored prompt identity, which stays what it was.
C9_KeepsPrompt ==
    [][/\ \A t2 \in BagToSet(tasks') :
             (Spawned(t2) /\ t2.kind = "clear_buf")
                 => /\ buffer'[t2.user] = <<>>
                    /\ Tracked(t2.user)' = Tracked(t2.user)
                    /\ IF Tracked(t2.user) = Untracked
                       THEN t2.pc = "reply_text"
                       ELSE /\ t2.pc = "edit_message_reply_markup"
                            /\ t2.target = Tracked(t2.user)
       /\ \A t \in Pending : \A t2 \in BagToSet(tasks') :
             (Steps(t, t2) /\ t.kind = "clear_buf")
                 => /\ Tracked(t.user)' = Tracked(t.user)
                    /\ buffer' = buffer]_vars

\* clear_buf has been handled, the buttons of the tracked prompt are gone, and
\* its identity is still stored
C9_StillTracked ==
    \E t \in Pending :
        /\ t.kind = "clear_buf" /\ t.pc = "done" /\ ~t.fault
        /\ buffer[t.user] = <<>>
        /\ Tracked(t.user) # Untracked
        /\ Tracked(t.user) \notin keyboards

(***************************************************************************)
(* C10                                                                     *)
(***************************************************************************)
\* C10: a show whose removal of the old buttons ended, in success, BadRequest
\* or another exception, goes on to send the new prompt; and when send_message
\* returns, the one identity tracked for the user is that of the prompt just
\* sent, a message that carries buttons and is not the one tracked before.
C10_SecondPromptTracked ==
    [][\A t \in Pending : \A t2 \in BagToSet(tasks') :
          Steps(t, t2)
              => /\ (t.pc = "edit_message_reply_markup" /\ t.msg = "prompt")
                     => t2.pc = "send_message"
                 /\ (t.pc = "send_message" /\ t2.pc = "done" /\ ~t2.fault)
                     => /\ Tracked(t.user)' = <<t.chat, next_message_id>>
                        /\ Tracked(t.user)' # Tracked(t.user)
                        /\ Tracked(t.user)' \in keyboards'
                        /\ Tracked(t.user)' \notin keyboards]_vars

\* two shows in a row, the removal of the first prompt's buttons failed: the
\* second prompt is shown and tracked, the first still carries its buttons
C10_SecondShownAfterFailedRemoval ==
    /\ next_message_id = 3
    /\ Tracked("u1") = <<"c1", 2>>
    /\ keyboards = {<<"c1", 1>>, <<"c1", 2>>}

(***************************************************************************)
(* C11                                                                     *)
(***************************************************************************)
\* C11: in a photo, voice or audio-document handler, a get_file or download
\* that raises, or a recognition that returns None or only whitespace, is
\* answered with a failure message (not recognized, or error) and leaves the
\* buffer as it is; from then on the handler changes neither the buffer nor
\* the tracked prompt, and it ends with an exception only if the error
\* message itself could not be sent.
C11_RecognitionFailureReported ==
    [][\A t \in Pending : \A t2 \in BagToSet(tasks') :
          (Steps(t, t2) /\ t.kind = "media")
              => /\ (t.pc \in {"get_file", "download_to_drive"}
                        /\ t2.msg \notin {None, "recognized", "full"})
                     => /\ t2.pc = "reply_text"
                        /\ t2.msg \in {"not_recognized", "error"}
                        /\ buffer' = buffer
                 /\ (t.pc = "download_to_drive" /\ buffer' # buffer)
                     => /\ t2.msg = "recognized"
                        /\ Len(buffer'[t.user]) = Len(buffer[t.user]) + 1
                        /\ buffer'[t.user][Len(buffer'[t.user])] \in
                               {Strip(r) : r \in Recognitions} \ {<<>>}
                 /\ t.msg \in {"not_recognized", "error"}
                     => /\ buffer' = buffer
                        /\ Tracked(t.user)' = Tracked(t.user)
                        /\ t2.pc \in {"reply_text", "done"}
                        /\ t2.pc = "reply_text" => t2.msg = "error"
                        /\ (t2.pc = "done" /\ t2.fault) => t.msg = "error"]_vars

\* a recognition that returned nothing, reported, with fragments in the buffer
C11_NotRecognizedReported ==
    \E t \in Pending :
        /\ t.kind = "media" /\ t.pc = "done" /\ ~t.fault
        /\ t.msg = "not_recognized"
        /\ buffer[t.user] # <<>>

(***************************************************************************)
(* C12                                                                     *)
(***************************************************************************)
\* C12: new_task pressed while the buffer of the user is empty only sends the
\* empty-draft warning: the handler never reaches the AI call or an append,
\* and none of its steps changes the sheet, the buffer, the tracked prompt or
\* the buttons shown.
C12_EmptyCommitWarnsOnly ==
    [][/\ \A t2 \in BagToSet(tasks') :
             (Spawned(t2) /\ t2.kind = "new_task" /\ buffer[t2.user] = <<>>)
                 => /\ t2.pc = "reply_text" /\ t2.msg = "warn_empty"
                    /\ t2.structured = "no" /\ t2.fallback = "no"
                    /\ buffer' = buffer /\ rows' = rows
                    /\ Tracked(t2.user)' = Tracked(t2.user)
                    /\ keyboards' = keyboards
       /\ \A t \in Pending : \A t2 \in BagToSet(tasks') :
             (Steps(t, t2) /\ t.kind = "new_task" /\ t.msg = "warn_empty")
                 => /\ t2.pc = "done"
                    /\ t2.structured = "no" /\ t2.fallback = "no"
                    /\ buffer' = buffer /\ rows' = rows
                    /\ Tracked(t.user)' = Tracked(t.user)
                    /\ keyboards' = keyboards]_vars

\* new_task on an empty buffer, warned, after a prompt has been shown
C12_WarnedOnEmpty ==
    \E t \in Pending :
        /\ t.kind = "new_task" /\ t.pc = "done" /\ ~t.fault
        /\ t.msg = "warn_empty"
        /\ buffer[t.user] = <<>> /\ rows = <<>>
        /\ Tracked(t.user) # Untracked

(***************************************************************************)
(* The answers the parser properties speak of                              *)
(***************************************************************************)
NoLine == <<"-">>

\* the first line of ls that is one of set, the line take() reads
FirstOf(ls, set) ==
    IF \E i \in 1..Len(ls) : ls[i] \in set
    THEN ls[CHOOSE i \in 1..Len(ls) :
                ls[i] \in set /\ \A j \in 1..(i - 1) : ls[j] \notin set]
    ELSE NoLine

PriorityLines ==
    {LinePriorityUrgent, LinePriorityThisWeek, LinePriorityEmpty,
     LinePriorityHigh, LinePriorityMedium}

\* the parser has returned a dict
Accepted == parser.fields # NotReturned /\ parser.fields # NoFields

Priorities == {PriorityHigh, PriorityMedium, PriorityNormal}

(***************************************************************************)
(* C13                                                                     *)
(***************************************************************************)
\* C13 as stated: of an accepted answer, the priority text 'terminovo'
\* (urgently) yields the high priority, 'cogo tyznja' (this week) the medium
\* one, an empty text the normal one; the priority is always one of the three
\* values.
C13_PriorityFromUrgency ==
    Accepted =>
        LET p == FirstOf(parser.lines, PriorityLines)
        IN /\ p = LinePriorityUrgent => parser.fields.priority = PriorityHigh
           /\ p = LinePriorityThisWeek => parser.fields.priority = PriorityMedium
           /\ p = LinePriorityEmpty => parser.fields.priority = PriorityNormal
           /\ parser.fields.priority \in Priorities

\* C13, amended: the parser matches the three values the prompt asks the AI
\* for, in any letter case: a priority text with 'vysok' yields the high
\* priority, else one with 'ser' the medium one; every other text, 'terminovo'
\* and 'cogo tyznja' among them, an empty text and a missing line yield the
\* normal one; the priority is always one of the three values, never the text.
C13_PriorityFromLabels ==
    Accepted =>
        LET p == FirstOf(parser.lines, PriorityLines)
        IN /\ p = LinePriorityHigh => parser.fields.priority = PriorityHigh
           /\ p = LinePriorityMedium => parser.fields.priority = PriorityMedium
           /\ p \in {LinePriorityUrgent, LinePriorityThisWeek,
                     LinePriorityEmpty, NoLine}
                  => parser.fields.priority = PriorityNormal
           /\ parser.fields.priority \in Priorities

\* an accepted answer whose priority text is 'terminovo', parsed to normal
C13_UrgentIsNormal ==
    /\ Accepted
    /\ FirstOf(parser.lines, PriorityLines) = LinePriorityUrgent
    /\ parser.fields.priority = PriorityNormal

(***************************************************************************)
(* C14                                                                     *)
(***************************************************************************)
\* C14: an answer none of whose lines starts with the name label, in any
\* letter case, and carries a value is rejected by the parser, whatever other
\* labelled lines it has; and the commit then goes to the fallback: it never
\* calls append_task_structured, calls append_task, and the sheet gets the
\* fallback row or nothing.
C14_NoNameRejected ==
    (/\ parser.fields # NotReturned
     /\ \A i \in 1..Len(parser.lines) : parser.lines[i] # LineNameUpper)
        => /\ parser.fields = NoFields
           /\ \A t \in Pending :
                 /\ t.structured = "no"
                 /\ t.fallback \in {"ok", "failed"}
                 /\ t.msg \in {"fallback", "error"}
                 /\ rows = IF t.fallback = "ok"
                           THEN <<append_task(t.raw_text)>>
                           ELSE <<>>

\* an answer with a tag, a description and the name label without a value:
\* rejected, the fallback row written
C14_EmptyNameFellBack ==
    /\ parser.fields = NoFields
    /\ \E i \in 1..Len(parser.lines) : parser.lines[i] = LineNameEmpty
    /\ \E i \in 1..Len(parser.lines) : parser.lines[i] = LineTagBare
    /\ \E i \in 1..Len(parser.lines) : parser.lines[i] = LineDescription
    /\ \E t \in Pending : t.fallback = "ok" /\ rows = <<append_task(t.raw_text)>>

(***************************************************************************)
(* C15                                                                     *)
(***************************************************************************)
TagLines == {LineTagBare, LineTagHash}

DescriptionLines == {LineDescription, LineDescriptionEmpty}

\* C15: the dict of an accepted answer has no empty field: the name is not
\* empty; the tag starts with "#", is the default without a tag line, the
\* text with "#" before it for a tag written without, and the text itself for
\* a tag written with "#"; the deadline is not empty and is the default
\* without a deadline line; the priority is one of the three values; the
\* description is not empty and is the placeholder without a description line.
C15_FullyPopulated ==
    Accepted =>
        LET f == parser.fields
            tag == FirstOf(parser.lines, TagLines)
        IN /\ f.name # <<>>
           /\ f.tag # <<>> /\ f.tag[1] = "#"
           /\ tag = NoLine => f.tag = DefaultTag
           /\ tag = LineTagBare => f.tag = <<"#", "2", "4", "6">>
           /\ tag = LineTagHash => f.tag = <<"#", "7">>
           /\ f.deadline # <<>>
           /\ FirstOf(parser.lines, {LineDeadline}) = NoLine
                  => f.deadline = DefaultDeadline
           /\ FirstOf(parser.lines, {LineDeadline}) = LineDeadline
                  => f.deadline = <<"p", "t">>
           /\ f.priority \in Priorities
           /\ f.description # <<>>
           /\ FirstOf(parser.lines, DescriptionLines) = NoLine
                  => f.description = DefaultDescription

\* an accepted answer with a name and a tag written with "#" and nothing else
C15_DefaultsFilled ==
    /\ Accepted
    /\ FirstOf(parser.lines, TagLines) = LineTagHash
    /\ parser.fields.tag = <<"#", "7">>
    /\ parser.fields.deadline = DefaultDeadline
    /\ parser.fields.priority = PriorityNormal
    /\ parser.fields.description = DefaultDescription

(***************************************************************************)
(* C16                                                                     *)
(***************************************************************************)
\* the handlers of user u that are suspended at an await, with their number
Suspended(u) ==
    LET unfinished == {t \in Pending : t.user = u /\ t.pc # "done"}
    IN BagCardinality([t \in unfinished |-> tasks[t]])

\* C16: a step changes the buffer or the tracked prompt of a user only while
\* no other handler of that user is suspended: the handler of a new update
\* finds none suspended, a resumed handler only itself.
C16_NoReentrancy ==
    [][\A u \in Users :
          (buffer'[u] # buffer[u] \/ Tracked(u)' # Tracked(u))
              => Suspended(u) <= IF BagCardinality(tasks') > BagCardinality(tasks)
                                 THEN 0 ELSE 1]_vars

(***************************************************************************)
(* C17                                                                     *)
(***************************************************************************)
\* the conversation coroutine t works for
SessionOf(t) == <<t.user, t.chat>>

\* coroutine w is a commit awaiting analyze_task_with_ai
AwaitsAI(w) == w.pc = "analyze_task_with_ai"

\* C17: the AI call runs on a worker thread: while a commit awaits it, every
\* pending handler of another conversation can take its next step at once
\* (none waits for the AI call to return), and the step that ends the await
\* changes only the commit that issued the call: any other commit awaiting an
\* answer still awaits it, and no buffer changes
C17_OthersNotDelayed ==
    /\ [](\A w \in BagToSet(tasks), t \in BagToSet(tasks) :
              (AwaitsAI(w) /\ SessionOf(t) # SessionOf(w))
                  => ENABLED (SessionsNext /\ CopiesIn(t, tasks') < CopiesIn(t, tasks)))
    /\ [][\A t \in BagToSet(tasks), t2 \in BagToSet(tasks') :
              (Steps(t, t2) /\ AwaitsAI(t))
                  => /\ SessionOf(t2) = SessionOf(t)
                     /\ t2.at_start = t.at_start
                     /\ buffer' = buffer
                     /\ \A w \in BagToSet(tasks) :
                            (AwaitsAI(w) /\ w # t)
                                => CopiesIn(w, tasks') = CopiesIn(w, tasks)]_vars

\* C17 witness: the commit of one conversation still awaits the AI and the
\* handler of another user's event has run to its end, its prompt shown
C17_OtherHandledWhileAwaiting ==
    \E w \in BagToSet(tasks), t \in BagToSet(tasks) :
        /\ AwaitsAI(w)
        /\ t.user # w.user
        /\ t.pc = "done"
        /\ ~t.fault
        /\ Tracked(t.user) \in keyboards
        /\ updates = MaxSessionUpdates

(***************************************************************************)
(* C18                                                                     *)
(***************************************************************************)
\* C18: the buffer and the tracked prompt are scoped per conversation: the
\* handler of an event of one conversation (its coroutine after the step is
\* t2) changes no prompt reference that points into another conversation,
\* removes the buttons of no message of another conversation, and changes no
\* buffer from which a commit of another conversation has taken the fragments
\* it is about to write
C18_ScopedPerConversation ==
    [][\A t2 \in BagToSet(tasks') :
          CopiesIn(t2, tasks') > CopiesIn(t2, tasks)
              => /\ Tracked(t2.user)' # Tracked(t2.user)
                        => Tracked(t2.user)[1] \in {None, t2.chat}
                 /\ t2.pc = "edit_message_reply_markup" => t2.target[1] = t2.chat
                 /\ buffer'[t2.user] # buffer[t2.user]
                        => \A w \in BagToSet(tasks) :
                               (AwaitsAI(w) /\ w.user = t2.user) => w.chat = t2.chat]_vars

(***************************************************************************)
(* C19                                                                     *)
(***************************************************************************)
\* the messages of chat c that still carry their buttons
WithButtons(c) == {k \in keyboards : k[1] = c}

\* C19: in every reachable state at most one message the bot sent in a
\* conversation still carries its action buttons
C19_AtMostOnePrompt == \A c \in Chats : Cardinality(WithButtons(c)) <= 1

(***************************************************************************)
(* C20                                                                     *)
(***************************************************************************)
\* C20: in every reachable state every fragment in a buffer is a non-empty
\* string that neither begins nor ends with whitespace
C20_FragmentsTrimmed ==
    \A u \in Users : \A k \in DOMAIN buffer[u] :
        LET fragment == buffer[u][k]
        IN /\ fragment # <<>>
           /\ ~IsSpace(fragment[1])
           /\ ~IsSpace(fragment[Len(fragment)])

\* C20 witness: a text and a recognition result, both of which arrive with
\* whitespace around them, have been appended
C20_TextAndRecognitionStored ==
    \E t \in Pending, m \in Pending :
        /\ t.kind = "text" /\ t.msg = "added"
        /\ m.kind = "media" /\ m.msg = "recognized"
        /\ t.user = m.user
        /\ Len(buffer[t.user]) >= 2
        /\ \A x \in Texts \cup Recognitions : x # Strip(x)

(***************************************************************************)
(* C21                                                                     *)
(***************************************************************************)
\* C21: every fragment a new_task commit removes from the buffer was part of
\* the text that commit persisted: when a step of the commit empties the
\* buffer, the buffer holds nothing but fragments of the snapshot the commit
\* joined into its row
C21_ClearsOnlyWhatItWrote ==
    [][\A t \in Pending : \A t2 \in BagToSet(tasks') :
          (Steps(t, t2) /\ t.kind = "new_task" /\ buffer'[t.user] # buffer[t.user])
              => \A k \in DOMAIN buffer[t.user] :
                     k \in DOMAIN t.at_start /\ t.at_start[k] = buffer[t.user][k]]_vars

(***************************************************************************)
(* C22                                                                     *)
(***************************************************************************)
\* the unfinished commits of user u that have appended a row of the fragments
\* in buf; none of them has reached its buf.clear(), so all of them took buf
\* from the same buffer contents
Persisted(u, buf) ==
    {t \in Pending : /\ t.kind = "new_task" /\ t.user = u /\ t.at_start = buf
                     /\ t.pc # "done"
                     /\ (t.structured = "ok" \/ t.fallback = "ok")}

\* C22: the same buffer contents are persisted by at most one commit: of the
\* commits of a user that run at the same time on the same fragments, at most
\* one has appended a row
C22_PersistedOnce ==
    \A t \in Pending :
        t \in Persisted(t.user, t.at_start)
            => CopiesIn(t, tasks) = 1 /\ Persisted(t.user, t.at_start) = {t}

(***************************************************************************)
(* C23                                                                     *)
(***************************************************************************)
\* the commit t has returned in one of its three outcomes: the structured row
\* written and the buffer cleared, the fallback row written and the buffer
\* cleared, or the write error reported with the buffer as the commit found it
Outcome(t) ==
    /\ t.kind = "new_task" /\ t.pc = "done" /\ ~t.fault
    /\ \/ /\ t.structured = "ok" /\ t.fallback = "no" /\ t.msg = "structured"
          /\ buffer[t.user] = <<>>
       \/ /\ t.structured # "ok" /\ t.fallback = "ok" /\ t.msg = "fallback"
          /\ buffer[t.user] = <<>>
       \/ /\ t.structured # "ok" /\ t.fallback = "failed" /\ t.msg = "error"
          /\ buffer[t.user] = t.at_start

\* C23: when every awaited call returns or raises, a new_task commit on a
\* non-empty buffer, which awaits the AI, leads to a commit that has returned
\* in exactly one of the three outcomes, with no fault escaping the handler
C23_CommitEndsInOutcome ==
    (\E t \in Pending : AwaitsAI(t)) ~> (\E t \in Pending : Outcome(t))
====
